---- MODULE Spec2Model ----
(***************************************************************************)
(* Model of sample/simple.py: the elevator log container                   *)
(* (ElevatorLogEntries), the reconstruction of elevator operations from    *)
(* log entries (ElevatorOperations.from_log_entries) and the statistics    *)
(* over the operations (average, median, is_anamoly, operation_time).      *)
(*                                                                         *)
(* A log entry is a record [id, floor, type, date]; date is the timestamp  *)
(* in seconds, and the calendar date of a timestamp is date \div           *)
(* SecondsPerDay.  device_id is never read by the code and is left out.    *)
(***************************************************************************)
EXTENDS Integers, Sequences, FiniteSets, TLC

VARIABLES
    input,       \* the list handed to ElevatorLogEntries.__init__
    list,        \* ElevatorLogEntries._list
    pc,          \* "ready", "loop" (inside from_log_entries), "returned",
                 \* "done" or "raised"
    call,        \* the method called last and its argument
    ret,         \* what that method returned
    raised,      \* the exception that left the last call, or NoError
    floorsList,  \* from_log_entries: floors, the partitions in iteration order
    idx,         \* from_log_entries: position of the for loop in the flat list
    start,       \* from_log_entries: start
    other,       \* from_log_entries: other
    results,     \* from_log_entries: results
    operations   \* ElevatorOperations._operations

vars == <<input, list, pc, call, ret, raised,
          floorsList, idx, start, other, results, operations>>

collVars == <<input, list, raised>>
buildVars == <<floorsList, idx, start, other, results>>

(***************************************************************************)
(* Bounds of the model and constants of the program                        *)
(***************************************************************************)
MaxEntries == 3
MaxOps == 3
SecondsPerDay == 86400
AnomalyLimit == 60 * 10

Floors == {-1, 1, 2}
Types == {"button_call", "door_open"}
Times == {0, 10, 20, SecondsPerDay}
CollTimes == {0, 10, SecondsPerDay}
StartTimes == {0, 1}
EndTimes == {0, AnomalyLimit, AnomalyLimit + 1}

(***************************************************************************)
(* Python values                                                           *)
(***************************************************************************)
None == [id |-> 0, floor |-> 0, type |-> "None", date |-> 0]
NoError == "none"
TypeError == "TypeError"
StatisticsError == "StatisticsError"

Abs(n) == IF n < 0 THEN -n ELSE n

DateOf(t) == t \div SecondsPerDay

ElevatorLogEntry(id, data, type, date) ==
    [id |-> id, floor |-> data, type |-> type, date |-> date]

Range(s) == {s[i] : i \in 1..Len(s)}

(***************************************************************************)
(* ElevatorLogEntries                                                      *)
(***************************************************************************)
\* A sort that is not stable: e goes before the elements with an equal key.
InsertByDateUnstable(s, e) ==
    LET later == {i \in 1..Len(s) : s[i].date >= e.date}
        k == IF later = {} THEN Len(s) + 1
             ELSE CHOOSE i \in later : \A j \in later : i <= j
    IN  SubSeq(s, 1, k - 1) \o <<e>> \o SubSeq(s, k, Len(s))

\* One step of sorted(): e goes after every element whose key is <= its own.
InsertByDate(s, e) ==
    LET later == {i \in 1..Len(s) : s[i].date > e.date}
        k == IF later = {} THEN Len(s) + 1
             ELSE CHOOSE i \in later : \A j \in later : i <= j
    IN  SubSeq(s, 1, k - 1) \o <<e>> \o SubSeq(s, k, Len(s))

RECURSIVE sorted(_)
sorted(l) ==
    IF l = <<>> THEN <<>>
    ELSE InsertByDate(sorted(SubSeq(l, 1, Len(l) - 1)), l[Len(l)])

ElevatorLogEntries(l) == sorted(l)

dates(l) == {DateOf(l[i].date) : i \in 1..Len(l)}

floors(l) == {l[i].floor : i \in 1..Len(l)}

\* Comparing the whole timestamp with the date instead of its calendar day.
MatchesDateTime(x, d) == x.date = d * SecondsPerDay

MatchesDate(x, d) == DateOf(x.date) = d

MatchesFloor(x, floor) == Abs(x.floor) = floor

filter_date(l, d) ==
    ElevatorLogEntries(SelectSeq(l, LAMBDA x : MatchesDate(x, d)))

filter_floor(l, floor) ==
    ElevatorLogEntries(SelectSeq(l, LAMBDA x : MatchesFloor(x, floor)))

split_by_date(l) == [d \in dates(l) |-> filter_date(l, d)]

split_by_floor(l) == [f \in floors(l) |-> filter_floor(l, f)]

\* bisect.bisect_left(a, x): the first probe compares a[mid] < x, and an
\* ElevatorLogEntry defines no ordering, so any probe raises TypeError.
bisect_left(a, x) == IF Len(a) > 0 THEN TypeError ELSE 0

(***************************************************************************)
(* ElevatorOperation                                                       *)
(***************************************************************************)
ElevatorOperationRecord(s, o, e) == [start |-> s, other |-> o, end |-> e]

\* Timestamps are whole seconds, so int(total_seconds()) is the difference.
operation_time(op) ==
    IF op.start = None \/ op.end = None
    THEN -1
    ELSE op.end.date - op.start.date

\* The limit taken as exclusive: ten minutes exactly counted as an anomaly.
is_anamoly_inclusive(op) ==
    IF op.start = None \/ op.end = None THEN TRUE
    ELSE IF operation_time(op) >= AnomalyLimit THEN TRUE
    ELSE IF operation_time(op) < 0 THEN TRUE
    ELSE FALSE

is_anamoly(op) ==
    IF op.start = None \/ op.end = None THEN TRUE
    ELSE IF operation_time(op) > AnomalyLimit THEN TRUE
    ELSE IF operation_time(op) < 0 THEN TRUE
    ELSE FALSE

(***************************************************************************)
(* ElevatorOperations: statistics.  A number is a pair <<num, den>>.       *)
(***************************************************************************)
RECURSIVE Sum(_)
Sum(data) == IF data = <<>> THEN 0 ELSE data[1] + Sum(Tail(data))

InsertInt(s, x) ==
    LET later == {i \in 1..Len(s) : s[i] > x}
        k == IF later = {} THEN Len(s) + 1
             ELSE CHOOSE i \in later : \A j \in later : i <= j
    IN  SubSeq(s, 1, k - 1) \o <<x>> \o SubSeq(s, k, Len(s))

RECURSIVE SortInts(_)
SortInts(data) ==
    IF data = <<>> THEN <<>>
    ELSE InsertInt(SortInts(SubSeq(data, 1, Len(data) - 1)), data[Len(data)])

\* statistics.mean / statistics.median: StatisticsError on no data.
mean(data) ==
    IF data = <<>>
    THEN [raised |-> StatisticsError, value |-> <<0, 1>>]
    ELSE [raised |-> NoError, value |-> <<Sum(data), Len(data)>>]

median(data) ==
    LET s == SortInts(data)
        n == Len(s)
    IN  IF n = 0
        THEN [raised |-> StatisticsError, value |-> <<0, 1>>]
        ELSE IF n % 2 = 1
        THEN [raised |-> NoError, value |-> <<s[(n \div 2) + 1], 1>>]
        ELSE [raised |-> NoError, value |-> <<s[n \div 2] + s[(n \div 2) + 1], 2>>]

\* The filter of the generator left out: every operation is counted.
KeepAll(x) == TRUE

Keep(x) == ~is_anamoly(x)

\* the generator: x.operation_time() for x in self._operations if not x.is_anamoly()
ValidTimes(ops) ==
    LET kept == SelectSeq(ops, LAMBDA x : Keep(x))
    IN  [i \in 1..Len(kept) |-> operation_time(kept[i])]

average(ops) ==
    LET m == mean(ValidTimes(ops))
    IN  IF m.raised # NoError THEN <<-1, 1>> ELSE m.value

medianOf(ops) ==
    LET m == median(ValidTimes(ops))
    IN  IF m.raised # NoError THEN <<-1, 1>> ELSE m.value

(***************************************************************************)
(* Initial states: a collection constructed from an arbitrary list         *)
(***************************************************************************)
CollChoices ==
    [floor : Floors, type : {"button_call"}, date : CollTimes]
        \cup {[floor |-> 1, type |-> "door_open", date |-> 0]}

EntryChoices == [floor : Floors, type : Types, date : Times]

Inputs(n, choices) ==
    {[k \in 1..n |-> ElevatorLogEntry(k, f[k].floor, f[k].type, f[k].date)] :
        f \in [1..n -> choices]}

NoBuild ==
    /\ floorsList = <<>>
    /\ idx = 0
    /\ start = None
    /\ other = <<>>
    /\ results = <<>>

Init ==
    /\ \E n \in 0..MaxEntries : input \in Inputs(n, CollChoices)
    /\ list = ElevatorLogEntries(input)
    /\ pc = "ready"
    /\ call = [op |-> "__init__", arg |-> 0]
    /\ ret = <<>>
    /\ raised = NoError
    /\ NoBuild
    /\ operations = <<>>

(***************************************************************************)
(* Operations of the container                                             *)
(***************************************************************************)
Dates ==
    /\ pc = "ready"
    /\ pc' = "done"
    /\ call' = [op |-> "dates", arg |-> 0]
    /\ ret' = dates(list)
    /\ UNCHANGED <<collVars, buildVars, operations>>

FloorsOp ==
    /\ pc = "ready"
    /\ pc' = "done"
    /\ call' = [op |-> "floors", arg |-> 0]
    /\ ret' = floors(list)
    /\ UNCHANGED <<collVars, buildVars, operations>>

FilterDate == \E d \in {DateOf(t) : t \in Times} :
    /\ pc = "ready"
    /\ pc' = "done"
    /\ call' = [op |-> "filter_date", arg |-> d]
    /\ ret' = filter_date(list, d)
    /\ UNCHANGED <<collVars, buildVars, operations>>

FilterFloor == \E f \in Floors \cup {-f : f \in Floors} :
    /\ pc = "ready"
    /\ pc' = "done"
    /\ call' = [op |-> "filter_floor", arg |-> f]
    /\ ret' = filter_floor(list, f)
    /\ UNCHANGED <<collVars, buildVars, operations>>

SplitByDate ==
    /\ pc = "ready"
    /\ pc' = "done"
    /\ call' = [op |-> "split_by_date", arg |-> 0]
    /\ ret' = split_by_date(list)
    /\ UNCHANGED <<collVars, buildVars, operations>>

SplitByFloor ==
    /\ pc = "ready"
    /\ pc' = "done"
    /\ call' = [op |-> "split_by_floor", arg |-> 0]
    /\ ret' = split_by_floor(list)
    /\ UNCHANGED <<collVars, buildVars, operations>>

\* insert(entry): list.append(entry) runs while the arguments of bisect_left
\* are evaluated and returns None; bisect_left then raises on its first probe,
\* so the outer list.insert is never reached and the exception leaves the call.
Insert ==
    /\ pc = "ready"
    /\ \E c \in CollChoices :
        LET entry == ElevatorLogEntry(Len(list) + 1, c.floor, c.type, c.date)
            appended == Append(list, entry)
            at == bisect_left(appended, None)
        IN  /\ IF at = TypeError
               THEN /\ list' = appended
                    /\ raised' = TypeError
                    /\ pc' = "raised"
               ELSE /\ list' = SubSeq(appended, 1, at) \o <<entry>>
                                \o SubSeq(appended, at + 1, Len(appended))
                    /\ raised' = NoError
                    /\ pc' = "ready"
            /\ call' = [op |-> "insert", arg |-> entry]
    /\ UNCHANGED <<input, ret, buildVars, operations>>

Next ==
    \/ Dates
    \/ FloorsOp
    \/ FilterDate
    \/ FilterFloor
    \/ SplitByDate
    \/ SplitByFloor
    \/ Insert

Spec == Init /\ [][Next]_vars

(***************************************************************************)
(* ElevatorOperations.from_log_entries                                     *)
(***************************************************************************)
RECURSIVE Flatten(_)
Flatten(ss) == IF ss = <<>> THEN <<>> ELSE ss[1] \o Flatten(Tail(ss))

Orderings(S) ==
    {o \in [1..Cardinality(S) -> S] : \A i, j \in 1..Cardinality(S) : o[i] = o[j] => i = j}

IsSortedByDate(l) == \A i, j \in 1..Len(l) : i < j => l[i].date <= l[j].date

InitBuild ==
    /\ \E n \in 0..MaxEntries : input \in Inputs(n, EntryChoices)
    /\ IsSortedByDate(input)
    /\ list = ElevatorLogEntries(input)
    /\ pc = "ready"
    /\ call = [op |-> "__init__", arg |-> 0]
    /\ ret = <<>>
    /\ raised = NoError
    /\ NoBuild
    /\ operations = <<>>

\* lines 103-113: the partitions, in the iteration order of the two
\* dictionaries (the order of a set of dates or floors is not fixed).
FromLogEntries ==
    /\ pc = "ready"
    /\ LET byDate == split_by_date(list)
           byFloor == [d \in DOMAIN byDate |-> split_by_floor(byDate[d])]
           keys == {k \in (DOMAIN byDate) \X Floors : k[2] \in DOMAIN byFloor[k[1]]}
       IN  \E o \in Orderings(keys) :
               /\ \A i, j, k \in 1..Len(o) :
                      (i < j /\ j < k /\ o[i][1] = o[k][1]) => o[j][1] = o[i][1]
               /\ floorsList' = [i \in 1..Len(o) |-> byFloor[o[i][1]][o[i][2]]]
    /\ pc' = "loop"
    /\ idx' = 1
    /\ start' = None
    /\ other' = <<>>
    /\ results' = <<>>
    /\ call' = [op |-> "from_log_entries", arg |-> 0]
    /\ UNCHANGED <<collVars, ret, operations>>

Entry == Flatten(floorsList)[idx]

InLoop == pc = "loop" /\ idx <= Len(Flatten(floorsList))

LoopFirstCall ==
    /\ InLoop
    /\ Entry.type = "button_call" /\ start = None
    /\ start' = Entry
    /\ idx' = idx + 1
    /\ UNCHANGED <<collVars, pc, call, ret, floorsList, other, results, operations>>

\* A later call taking the place of the pending one instead of being an extra.
LoopExtraCallRestart ==
    /\ InLoop
    /\ Entry.type = "button_call" /\ start # None
    /\ start' = Entry
    /\ idx' = idx + 1
    /\ UNCHANGED <<collVars, pc, call, ret, floorsList, other, results, operations>>

LoopExtraCall ==
    /\ InLoop
    /\ Entry.type = "button_call" /\ start # None
    /\ other' = Append(other, Entry)
    /\ idx' = idx + 1
    /\ UNCHANGED <<collVars, pc, call, ret, floorsList, start, results, operations>>

LoopDoorOpen ==
    /\ InLoop
    /\ Entry.type # "button_call"
    /\ results' = Append(results, ElevatorOperationRecord(start, other, Entry))
    /\ start' = None
    /\ other' = <<>>
    /\ idx' = idx + 1
    /\ UNCHANGED <<collVars, pc, call, ret, floorsList, operations>>

LoopReturn ==
    /\ pc = "loop"
    /\ idx > Len(Flatten(floorsList))
    /\ operations' = results
    /\ pc' = "returned"
    /\ UNCHANGED <<collVars, call, ret, buildVars>>

Average ==
    /\ pc = "returned"
    /\ pc' = "done"
    /\ call' = [op |-> "average", arg |-> 0]
    /\ ret' = average(operations)
    /\ UNCHANGED <<collVars, buildVars, operations>>

Median ==
    /\ pc = "returned"
    /\ pc' = "done"
    /\ call' = [op |-> "median", arg |-> 0]
    /\ ret' = medianOf(operations)
    /\ UNCHANGED <<collVars, buildVars, operations>>

NextBuild ==
    \/ FromLogEntries
    \/ LoopFirstCall
    \/ LoopExtraCall
    \/ LoopDoorOpen
    \/ LoopReturn
    \/ Average
    \/ Median

SpecBuild == InitBuild /\ [][NextBuild]_vars

(***************************************************************************)
(* ElevatorOperations built directly from a list of operations             *)
(***************************************************************************)
StartChoices == {None} \cup {ElevatorLogEntry(1, 1, "button_call", t) : t \in StartTimes}
EndChoices == {None} \cup {ElevatorLogEntry(2, 1, "door_open", t) : t \in EndTimes}
OpChoices == {ElevatorOperationRecord(s, <<>>, e) : s \in StartChoices, e \in EndChoices}

InitStats ==
    /\ input = <<>>
    /\ list = <<>>
    /\ pc = "returned"
    /\ call = [op |-> "__init__", arg |-> 0]
    /\ ret = <<>>
    /\ raised = NoError
    /\ NoBuild
    /\ \E n \in 0..MaxOps : operations \in [1..n -> OpChoices]

IsAnamoly == \E i \in 1..Len(operations) :
    /\ pc = "returned"
    /\ pc' = "done"
    /\ call' = [op |-> "is_anamoly", arg |-> i]
    /\ ret' = is_anamoly(operations[i])
    /\ UNCHANGED <<collVars, buildVars, operations>>

OperationTime == \E i \in 1..Len(operations) :
    /\ pc = "returned"
    /\ pc' = "done"
    /\ call' = [op |-> "operation_time", arg |-> i]
    /\ ret' = operation_time(operations[i])
    /\ UNCHANGED <<collVars, buildVars, operations>>

NextStats ==
    \/ IsAnamoly
    \/ OperationTime
    \/ Average
    \/ Median

SpecStats == InitStats /\ [][NextStats]_vars

(***************************************************************************)
(* Properties of the container (checked under Spec)                        *)
(***************************************************************************)
PosIn(l, e) == CHOOSE i \in 1..Len(l) : l[i] = e

\* r is in timestamp order, its ties in the order they have in src
OrderedAsIn(r, src) ==
    /\ Range(r) \subseteq Range(src)
    /\ \A i, j \in 1..Len(r) : i < j =>
          /\ r[i].date <= r[j].date
          /\ r[i].date = r[j].date => PosIn(src, r[i]) < PosIn(src, r[j])

\* the number of places where the entry e occurs in the values of the mapping m
Occurrences(m, e) ==
    Cardinality({p \in (DOMAIN m) \X (1..Len(list)) :
                    p[2] <= Len(m[p[1]]) /\ m[p[1]][p[2]] = e})

OnDay(x, d) == d * 86400 <= x.date /\ x.date < (d + 1) * 86400

\* C3: filter_floor(f) and filter_floor(-f) return the same entries in the
\* same order, exactly the entries with abs(floor) = abs(f).
C3_FilterFloorSignInsensitive ==
    call.op = "filter_floor" =>
        /\ ret = filter_floor(list, -call.arg)
        /\ ret = SelectSeq(list, LAMBDA x : Abs(x.floor) = Abs(call.arg))

\* C4: the keys of split_by_floor (and floors()) are exactly the distinct
\* abs(floor) of the entries, and every entry, a negative floor included, is in
\* exactly one value, the one keyed by its abs(floor).
C4_SplitByFloorPartitions ==
    /\ call.op = "floors" => ret = {Abs(list[i].floor) : i \in 1..Len(list)}
    /\ call.op = "split_by_floor" =>
          /\ DOMAIN ret = {Abs(list[i].floor) : i \in 1..Len(list)}
          /\ \A i \in 1..Len(list) :
                /\ Occurrences(ret, list[i]) = 1
                /\ list[i] \in Range(ret[Abs(list[i].floor)])

\* C5: split_by_date has one key per distinct calendar date, the value of a
\* date is exactly the entries of that date in their original relative order,
\* and every entry is in exactly one value.
C5_SplitByDatePartitions ==
    call.op = "split_by_date" =>
        /\ DOMAIN ret = {list[i].date \div 86400 : i \in 1..Len(list)}
        /\ \A d \in DOMAIN ret : ret[d] = SelectSeq(list, LAMBDA x : OnDay(x, d))
        /\ \A i \in 1..Len(list) : Occurrences(ret, list[i]) = 1

C5_Witness ==
    /\ call.op = "split_by_date"
    /\ Cardinality(DOMAIN ret) = 2
    /\ \E d \in DOMAIN ret : Len(ret[d]) = 2 /\ ret[d][1].date < ret[d][2].date

\* C6: every collection built by the constructor, filter_date, filter_floor,
\* split_by_date or split_by_floor holds the entries it was given in
\* non-decreasing timestamp order, equal timestamps in their input order.
C6_SortedStable ==
    /\ call.op = "__init__" =>
          /\ Len(list) = Len(input)
          /\ Range(list) = Range(input)
          /\ OrderedAsIn(list, input)
    /\ call.op \in {"filter_date", "filter_floor"} => OrderedAsIn(ret, list)
    /\ call.op \in {"split_by_date", "split_by_floor"} =>
          \A k \in DOMAIN ret : OrderedAsIn(ret[k], list)

C6_Witness ==
    /\ call.op = "filter_floor"
    /\ Len(ret) = 3
    /\ \E i, j \in 1..Len(input) : i < j /\ input[i].date > input[j].date
    /\ \E i, j \in 1..Len(input) : i < j /\ input[i].date = input[j].date

\* C9: insert(entry) completes without error, the collection then holds the
\* inserted entry exactly once besides its previous entries, and iteration is
\* still in non-decreasing timestamp order.
C9_InsertKeepsOrder ==
    call.op = "insert" =>
        /\ raised = NoError
        /\ Len(list) = Len(input) + 1
        /\ Range(list) = Range(input) \cup {call.arg}
        /\ \A i, j \in 1..Len(list) : i < j => list[i].date <= list[j].date

(***************************************************************************)
(* Properties of from_log_entries (checked under SpecBuild)                *)
(***************************************************************************)
flat == Flatten(floorsList)

RECURSIVE PartStart(_)
PartStart(k) == IF k = 1 THEN 1 ELSE PartStart(k - 1) + Len(floorsList[k - 1])

\* the partition that holds position i of the iteration
PartOf(i) ==
    CHOOSE k \in 1..Len(floorsList) :
        PartStart(k) <= i /\ i < PartStart(k) + Len(floorsList[k])

SamePartition(a, b) ==
    a.date \div 86400 = b.date \div 86400 /\ Abs(a.floor) = Abs(b.floor)

UsedBy(r) == ({r.start} \ {None}) \cup Range(r.other)

DoorOpens(l) == {i \in 1..Len(l) : l[i].type = "door_open"}

\* C1: the pairing is independent per (date, abs(floor)) partition: a
\* button_call with no later door_open in its own partition is in no emitted
\* operation, the start, extra calls and end of an operation belong to one
\* date and one floor magnitude, and nothing is pending where a partition
\* begins.
C1_PartitionsIndependent ==
    pc \in {"loop", "returned"} =>
        /\ \A k \in 1..Len(results) : \A e \in UsedBy(results[k]) :
              SamePartition(e, results[k].end)
        /\ \A i \in 1..Len(list) :
              (/\ list[i].type = "button_call"
               /\ ~\E j \in DoorOpens(list) : j > i /\ SamePartition(list[i], list[j]))
              => \A k \in 1..Len(results) : list[i] \notin UsedBy(results[k])
        /\ (pc = "loop" /\ idx <= Len(flat) /\ idx = PartStart(PartOf(idx)))
              => (start = None /\ other = <<>>)

\* C10: from_log_entries emits as many operations as the input has door_open
\* entries: each door_open is the end of exactly one operation, every
\* operation has its end, and no button_call is used in two operations.
C10_OneOperationPerDoorOpen ==
    pc = "returned" =>
        /\ Len(results) = Cardinality(DoorOpens(list))
        /\ \A i \in DoorOpens(list) :
              Cardinality({k \in 1..Len(results) : results[k].end = list[i]}) = 1
        /\ \A k \in 1..Len(results) : results[k].end # None
        /\ \A i \in 1..Len(list) : list[i].type = "button_call" =>
              Cardinality({k \in 1..Len(results) : list[i] \in UsedBy(results[k])}) <= 1

\* the position before the calls that the door_open at position e resolves
PrevOpen(e) ==
    LET before == {j \in DoorOpens(flat) : j < e /\ PartOf(j) = PartOf(e)}
    IN  IF before = {} THEN PartStart(PartOf(e)) - 1
        ELSE CHOOSE j \in before : \A m \in before : m <= j

\* the loop came to the partition of position e with nothing pending
EnteredClean(e) ==
    LET first == PartStart(PartOf(e))
    IN  first = 1 \/ flat[first - 1].type = "door_open"

Present(op) == op.start # None /\ op.end # None

\* C7: is_anamoly is true exactly when start or end is absent or the duration
\* (end minus start in seconds, -1 when one is absent) is above 600 or below
\* 0: false at exactly 600 and at 0, true at 601 and when end precedes start.
C7_AnomalyRule ==
    /\ call.op = "operation_time" =>
          LET op == operations[call.arg]
          IN  ret = (IF Present(op) THEN op.end.date - op.start.date ELSE -1)
    /\ call.op = "is_anamoly" =>
          LET op == operations[call.arg]
          IN  ret = (\/ ~Present(op)
                     \/ op.end.date - op.start.date > 600
                     \/ op.end.date < op.start.date)

C7_Witness ==
    /\ call.op = "is_anamoly"
    /\ Present(operations[call.arg])
    /\ operations[call.arg].end.date - operations[call.arg].start.date = 600
    /\ ret = FALSE

\* the operations that count: both ends present, 0 <= end - start <= 600
Counted ==
    {i \in 1..Len(operations) :
        /\ Present(operations[i])
        /\ operations[i].end.date - operations[i].start.date \in 0..600}

Duration(i) == operations[i].end.date - operations[i].start.date

RECURSIVE Total(_)
Total(S) == IF S = {} THEN 0 ELSE LET i == CHOOSE i \in S : TRUE
                                  IN  Duration(i) + Total(S \ {i})

\* the k-th smallest duration of the counted operations
Kth(k) ==
    CHOOSE v \in {Duration(i) : i \in Counted} :
        /\ Cardinality({i \in Counted : Duration(i) < v}) < k
        /\ Cardinality({i \in Counted : Duration(i) <= v}) >= k

\* C8: average and median are taken over the durations of exactly the
\* non-anomalous operations, the median of an even count being the mean of the
\* two middle values; with no operation or only anomalous ones both return -1,
\* and neither raises.
C8_StatisticsOverValid ==
    LET n == Cardinality(Counted)
    IN  /\ call.op \in {"average", "median"} => raised = NoError /\ ret[2] > 0
        /\ (call.op \in {"average", "median"} /\ n = 0) => ret = <<-1, 1>>
        /\ (call.op = "average" /\ n > 0) => ret[1] * n = ret[2] * Total(Counted)
        /\ (call.op = "median" /\ n > 0 /\ n % 2 = 1) =>
              ret[1] = ret[2] * Kth((n + 1) \div 2)
        /\ (call.op = "median" /\ n > 0 /\ n % 2 = 0) =>
              2 * ret[1] = ret[2] * (Kth(n \div 2) + Kth((n \div 2) + 1))

C8_Witness ==
    /\ call.op = "median"
    /\ Cardinality(Counted) = 2
    /\ Len(operations) > 2
    /\ Kth(1) < Kth(2)
    /\ 2 * ret[1] = ret[2] * (Kth(1) + Kth(2))

====
